---- MODULE Spec2Model ----
(***************************************************************************)
(* Diagnosis engine of sistema-diagnostico-medico (src/engine.py): the     *)
(* scorer ResultadoDiagnostico._calcular, the eligibility filter           *)
(* DiagnosticoEngine._verificar_condicoes, the cache key                   *)
(* DiagnosticoEngine._gerar_cache_key and the orchestration                *)
(* DiagnosticoEngine.avaliar with its result cache (a plain dict).         *)
(*                                                                         *)
(* Units.  A weight ("peso") is an integer number of hundredths, so 1.0 is *)
(* 100 and 0.5 is 50.  A percentage is an integer number of tenths of a    *)
(* percent, so 80.0 is 800: round(x, 1) keeps exactly one decimal.         *)
(* A symptom name is a Python str, modelled as a sequence of characters    *)
(* (<<"c", ",", "f">> is "c,f"), so that sorted() and ','.join() are       *)
(* computed character by character.                                        *)
(*                                                                         *)
(* Specifications.  Spec: sequential calls of avaliar and clear_cache.     *)
(* SpecCalc: the scorer and the filter on one condition and one query.     *)
(* SpecConsultas: the scorer on one condition and a succession of queries. *)
(* SpecRecarga: Spec with Database._carregar_doencas run between calls.    *)
(* SpecMalformada: Spec on catalogs holding a malformed condition.         *)
(* SpecConcorrente: avaliar line by line, called from several threads.     *)
(* SpecAlias: Spec with the caller changing the lists it was returned.     *)
(* SpecCarga: Database._carregar_doencas line by line between the calls.   *)
(* SpecConfig: Spec with config.CONFIG changed between the calls.          *)
(* SpecCache: the cache of DataManager (src/data_manager.py).              *)
(* SpecSingleton: Database() line by line, called from several threads.    *)
(* SpecPacientes: the patient collection of Database (src/database.py).    *)
(***************************************************************************)
EXTENDS Integers, Sequences, FiniteSets, TLC

VARIABLES
    doencas,      \* Database.doencas: the catalog, a sequence of Doenca
    CONFIG,       \* config.CONFIG: the entries the engine and the cache read
    cache,        \* DiagnosticoEngine.cache: dict cache_key -> resultados
    ultima,       \* the last call made on the engine and what it returned
    anterior,     \* the call made before the last one
    chamadas,     \* number of avaliar calls made so far
    doenca,       \* scorer/filter under test: ResultadoDiagnostico.doenca
    sintomas,     \* scorer/filter under test: sintomas_selecionados
    resultado,    \* scorer under test: the ResultadoDiagnostico fields
    elegivel,     \* filter under test: value returned by _verificar_condicoes
    calculado,    \* scorer under test: TRUE once the constructor has run
    calculoAnterior, \* scorer under test: the query and the result of the
                  \* scorer object built before the current one, if any
    origem,       \* for each cache key: the catalog and the query of the
                  \* avaliar call that stored its entry
    carga,        \* Database._carregar_doencas in progress: the line it is
                  \* at, the catalog read from the file and the collections
                  \* db.doencas has held complete so far
    fios,         \* concurrent callers of the engine: for each thread, the
                  \* line of avaliar it is at and its local variables
    gerenciador,  \* the DataManager object: its cache (the dict as the
                  \* sequence of its entries in insertion order), cache_ttl
                  \* and cache_max_size
    relogio,      \* time.time(), in seconds
    pedido,       \* the last call made on the DataManager cache, the cache
                  \* before it and what it returned
    operacoes,    \* number of calls made on the DataManager cache so far
    instancia,    \* Database._instance: 0 for None, else the object
    objetos,      \* the Database objects created so far, in order of
                  \* creation: whether _initialized is set and how many times
                  \* _carregar_dados has run on the object
    trava,        \* Database._lock: the thread holding it, 0 when free
    construtores, \* the threads calling Database(): the line each is at,
                  \* the object its __new__ returned and the objects its
                  \* calls have obtained so far
    pacientes,    \* Database.pacientes: dict id -> patient (cpf, ativo)
    cadastro      \* the last call made on the patient collection, the
                  \* collection before it and its outcome

vars == <<doencas, CONFIG, cache, ultima, anterior, chamadas,
          doenca, sintomas, resultado, elegivel, calculado, calculoAnterior,
          origem, fios, carga, gerenciador, relogio, pedido, operacoes,
          instancia, objetos, trava, construtores, pacientes, cadastro>>

engineVars == <<doencas, CONFIG, cache, ultima, anterior, chamadas,
                origem, fios>>
calcVars == <<doenca, sintomas, resultado, elegivel, calculado,
              calculoAnterior>>
dmVars == <<gerenciador, relogio, pedido, operacoes>>
dbVars == <<instancia, objetos, trava, construtores>>
pacVars == <<pacientes, cadastro>>
dadosVars == <<carga, dmVars, dbVars, pacVars>>

----------------------------------------------------------------------------
(* Bounds of the model *)

\* longest query passed to avaliar in the engine specification
MaxSintomasConsulta == 2

\* number of avaliar calls explored from the initial state
MaxChamadas == 3

\* longest symptom list of an enumerated condition (scorer specification)
MaxSintomasDoenca == 3

\* largest min_sintomas of an enumerated condition (scorer specification)
MaxMinSintomas == 2

\* number of threads calling the engine at the same time
NumFios == 2

\* number of calls made on the DataManager cache from its initial state
MaxOperacoes == 5

\* last second the clock of the DataManager cache reaches
MaxRelogio == 2

----------------------------------------------------------------------------
(* Generic sequence helpers *)

Min2(a, b) == IF a <= b THEN a ELSE b

\* s[:n] for n >= 0
Take(s, n) == SubSeq(s, 1, Min2(n, Len(s)))

\* x in s, for a Python list s
InList(x, s) == \E i \in 1..Len(s) : s[i] = x

\* all sequences over S of length 0..n
SeqsUpTo(S, n) == UNION {[1..k -> S] : k \in 0..n}

----------------------------------------------------------------------------
(* Python str comparison, sorted() and ','.join() *)

\* code points of the characters used in symptom names
CharCode(ch) ==
    CASE ch = "," -> 44
      [] ch = "c" -> 99
      [] ch = "f" -> 102
      [] ch = "g" -> 103

\* a < b for two str values: lexicographic by code point, a proper prefix
\* is smaller
RECURSIVE StrLess(_, _)
StrLess(a, b) ==
    IF b = <<>> THEN FALSE
    ELSE IF a = <<>> THEN TRUE
    ELSE IF CharCode(Head(a)) # CharCode(Head(b))
         THEN CharCode(Head(a)) < CharCode(Head(b))
         ELSE StrLess(Tail(a), Tail(b))

\* insert x into the ascending list s, after the elements that are not
\* greater than x (stable)
RECURSIVE InsertStr(_, _)
InsertStr(x, s) ==
    IF s = <<>> THEN <<x>>
    ELSE IF StrLess(x, Head(s)) THEN <<x>> \o s
    ELSE <<Head(s)>> \o InsertStr(x, Tail(s))

\* sorted(sintomas): every element is kept, duplicates included
RECURSIVE SortedStr(_)
SortedStr(s) ==
    IF s = <<>> THEN <<>>
    ELSE InsertStr(s[Len(s)], SortedStr(SubSeq(s, 1, Len(s) - 1)))

\* ','.join(parts)
RECURSIVE Join(_)
Join(parts) ==
    IF parts = <<>> THEN <<>>
    ELSE IF Len(parts) = 1 THEN parts[1]
    ELSE parts[1] \o <<",">> \o Join(Tail(parts))

\* hashlib.md5(text.encode()).hexdigest(): a deterministic digest of the
\* text; the digest of a text is modelled as that text tagged as a digest
\* (two texts get the same digest exactly when they are the same text)
Md5Hex(text) == [md5 |-> text]

\* variant of GerarCacheKey: the list is joined as given, not sorted
GerarCacheKeySemOrdenar(q) == Md5Hex(Join(q))

\* DiagnosticoEngine._gerar_cache_key
GerarCacheKey(q) == Md5Hex(Join(SortedStr(q)))

----------------------------------------------------------------------------
(* Catalog records *)

\* A symptom entry is a dict {"s": nome, "peso": w}; "peso" may be missing.
\* An entry that is a bare string is scored as the dict {"s": str(entry)}
\* without "peso" (lines 34-36 and 126).
\* float(sintoma.get("peso", 1.0))
PesoDe(sintoma) ==
    IF "peso" \in DOMAIN sintoma THEN sintoma.peso ELSE 100

\* condicoes.get("sintomas_obrigatorios", [])
ObrigatoriosDe(d) ==
    IF "sintomas_obrigatorios" \in DOMAIN d.condicoes
    THEN d.condicoes.sintomas_obrigatorios ELSE <<>>

\* condicoes.get("min_sintomas", 0)
MinSintomasDe(d) ==
    IF "min_sintomas" \in DOMAIN d.condicoes
    THEN d.condicoes.min_sintomas ELSE 0

----------------------------------------------------------------------------
(* The scorer: ResultadoDiagnostico *)

\* round(num / den * 100, 1) in tenths of a percent, for den > 0:
\* the nearest tenth, a tie going to the even tenth
RoundTenths(num, den) ==
    LET n == 1000 * num
        fl == n \div den
        r2 == 2 * (n - fl * den)
    IN  IF r2 < den THEN fl
        ELSE IF r2 > den THEN fl + 1
        ELSE IF fl % 2 = 0 THEN fl ELSE fl + 1

\* variant of DictPut: the names are collected in a list, not in a dict
DictPutEmLista(items, nome, peso) ==
    Append(items, [s |-> nome, peso |-> peso])

\* the dict sintomas_doenca built by the first loop of _calcular, as the
\* list of its items: a name keeps the position of its first entry and
\* takes the weight of its last entry
RECURSIVE DictPut(_, _, _)
DictPut(items, nome, peso) ==
    IF items = <<>> THEN <<[s |-> nome, peso |-> peso]>>
    ELSE IF Head(items).s = nome
         THEN <<[s |-> nome, peso |-> peso]>> \o Tail(items)
         ELSE <<Head(items)>> \o DictPut(Tail(items), nome, peso)

RECURSIVE SintomasDoencaDict(_)
SintomasDoencaDict(ss) ==
    IF ss = <<>> THEN <<>>
    ELSE LET ultimo == ss[Len(ss)]
         IN  DictPut(SintomasDoencaDict(SubSeq(ss, 1, Len(ss) - 1)),
                     ultimo.s, PesoDe(ultimo))

\* pontuacao_maxima after the first loop: every entry adds its weight
RECURSIVE PontuacaoMaxima(_)
PontuacaoMaxima(ss) ==
    IF ss = <<>> THEN 0
    ELSE PesoDe(Head(ss)) + PontuacaoMaxima(Tail(ss))

\* variant of Correspondencia: pontuacao_bruta is assigned (=) instead of
\* accumulated (+=)
RECURSIVE CorrespondenciaSemSoma(_, _, _)
CorrespondenciaSemSoma(items, q, acc) ==
    IF items = <<>> THEN acc
    ELSE LET it == Head(items)
         IN  IF InList(it.s, q)
             THEN CorrespondenciaSemSoma(Tail(items), q,
                    [acc EXCEPT !.pontuacao_bruta = it.peso,
                                !.sintomas_correspondentes = Append(@, it.s)])
             ELSE CorrespondenciaSemSoma(Tail(items), q,
                    [acc EXCEPT !.sintomas_faltantes = Append(@, it.s)])

\* the second loop of _calcular over the dict items
RECURSIVE Correspondencia(_, _, _)
Correspondencia(items, q, acc) ==
    IF items = <<>> THEN acc
    ELSE LET it == Head(items)
         IN  IF InList(it.s, q)
             THEN Correspondencia(Tail(items), q,
                    [acc EXCEPT !.pontuacao_bruta = @ + it.peso,
                                !.sintomas_correspondentes = Append(@, it.s)])
             ELSE Correspondencia(Tail(items), q,
                    [acc EXCEPT !.sintomas_faltantes = Append(@, it.s)])

\* ResultadoDiagnostico.__init__ before the call of _calcular
ResultadoInicial ==
    [sintomas_correspondentes |-> <<>>,
     sintomas_faltantes |-> <<>>,
     pontuacao_bruta |-> 0,
     pontuacao_maxima |-> 0,
     porcentagem |-> 0]

\* variant of Calcular: a condition with pontuacao_maxima 0 is a full match
CalcularVazioCem(d, q) ==
    LET maxima == PontuacaoMaxima(d.sintomas)
        r == Correspondencia(SintomasDoencaDict(d.sintomas), q,
                             [ResultadoInicial EXCEPT
                                  !.pontuacao_maxima = maxima])
    IN  [r EXCEPT !.porcentagem =
            IF maxima > 0
            THEN RoundTenths(r.pontuacao_bruta, maxima)
            ELSE 1000]

\* ResultadoDiagnostico(doenca, sintomas_selecionados): __init__ and _calcular
Calcular(d, q) ==
    LET maxima == PontuacaoMaxima(d.sintomas)
        r == Correspondencia(SintomasDoencaDict(d.sintomas), q,
                             [ResultadoInicial EXCEPT
                                  !.pontuacao_maxima = maxima])
    IN  [r EXCEPT !.porcentagem =
            IF maxima > 0
            THEN RoundTenths(r.pontuacao_bruta, maxima)
            ELSE 0]

\* ResultadoDiagnostico.to_dict: the fields the engine's claims read
\* (tipo, categoria, descricao, tratamento and severidade are copied from
\* the Doenca unchanged and are left out); round(x, 2) of a number of
\* hundredths is that number
ToDict(d, r) ==
    [doenca |-> d.nome,
     porcentagem |-> r.porcentagem,
     sintomas_correspondentes |-> r.sintomas_correspondentes,
     sintomas_faltantes |-> r.sintomas_faltantes,
     pontuacao_bruta |-> r.pontuacao_bruta,
     pontuacao_maxima |-> r.pontuacao_maxima]

----------------------------------------------------------------------------
(* The eligibility filter: DiagnosticoEngine._verificar_condicoes *)

\* the loop over sintomas_obrigatorios: False at the first one missing
RECURSIVE ObrigatoriosPresentes(_, _)
ObrigatoriosPresentes(obrig, q) ==
    IF obrig = <<>> THEN TRUE
    ELSE IF ~InList(Head(obrig), q) THEN FALSE
    ELSE ObrigatoriosPresentes(Tail(obrig), q)

\* comuns = [s for s in sintomas_doenca if s in sintomas]: one element per
\* symptom entry of the condition whose name is in the query
RECURSIVE Comuns(_, _)
Comuns(ss, q) ==
    IF ss = <<>> THEN <<>>
    ELSE IF InList(Head(ss).s, q)
         THEN <<Head(ss).s>> \o Comuns(Tail(ss), q)
         ELSE Comuns(Tail(ss), q)

\* variant of MinSintomasOk: the comparison is <= instead of <
MinSintomasOkMenorIgual(d, q) ==
    IF MinSintomasDe(d) > 0
    THEN ~(Len(Comuns(d.sintomas, q)) <= MinSintomasDe(d))
    ELSE TRUE

\* the second half of _verificar_condicoes: the minimum number of symptoms
MinSintomasOk(d, q) ==
    IF MinSintomasDe(d) > 0
    THEN ~(Len(Comuns(d.sintomas, q)) < MinSintomasDe(d))
    ELSE TRUE

VerificarCondicoes(d, q) ==
    IF ~ObrigatoriosPresentes(ObrigatoriosDe(d), q) THEN FALSE
    ELSE MinSintomasOk(d, q)

----------------------------------------------------------------------------
(* Exceptions raised on malformed catalog records *)

\* sintoma["s"] raises KeyError: the symptom record has no name key
EntradaSemNome(sintoma) == "s" \notin DOMAIN sintoma

\* float(sintoma.get("peso", 1.0)) raises ValueError: the weight is a text
\* that is not a number (the record holds it in the field peso_texto)
PesoInvalido(sintoma) == "peso_texto" \in DOMAIN sintoma

\* _verificar_condicoes(d, q) raises: the required symptoms are all there,
\* min_sintomas > 0 and the list of names is built over an entry without one
VerificarLevanta(d, q) ==
    /\ ObrigatoriosPresentes(ObrigatoriosDe(d), q)
    /\ MinSintomasDe(d) > 0
    /\ \E i \in 1..Len(d.sintomas) : EntradaSemNome(d.sintomas[i])

\* ResultadoDiagnostico(d, q) raises: the first loop of _calcular reads the
\* name and converts the weight of every entry
CalcularLevanta(d) ==
    \E i \in 1..Len(d.sintomas) :
        EntradaSemNome(d.sintomas[i]) \/ PesoInvalido(d.sintomas[i])

\* the body of the loop of avaliar raises on the condition d
DoencaLevanta(d, q) ==
    IF VerificarLevanta(d, q) THEN TRUE
    ELSE IF ~VerificarCondicoes(d, q) THEN FALSE
    ELSE CalcularLevanta(d)

\* the loop of avaliar is left by an exception: nothing catches it
VarreduraLevanta(cat, q) ==
    \E n \in 1..Len(cat) : DoencaLevanta(cat[n], q)

\* number of conditions the loop visits: all of them, or up to the first
\* one that raises
Varridas(cat, q) ==
    IF VarreduraLevanta(cat, q)
    THEN CHOOSE n \in 1..Len(cat) :
             /\ DoencaLevanta(cat[n], q)
             /\ \A m \in 1..(n - 1) : ~DoencaLevanta(cat[m], q)
    ELSE Len(cat)

----------------------------------------------------------------------------
(* The engine: DiagnosticoEngine.avaliar *)

\* variant of Manter: the comparison is > instead of >=
ManterEstrito(r, cfg) == r.porcentagem > cfg.PORCENTAGEM_MINIMA

\* resultado.porcentagem >= CONFIG["PORCENTAGEM_MINIMA"]
Manter(r, cfg) == r.porcentagem >= cfg.PORCENTAGEM_MINIMA

\* the loop of avaliar over self.db.doencas: the list resultados before it
\* is sorted
RECURSIVE Varredura(_, _, _)
Varredura(cat, q, cfg) ==
    IF cat = <<>> THEN <<>>
    ELSE LET d == Head(cat)
             resto == Varredura(Tail(cat), q, cfg)
         IN  IF ~VerificarCondicoes(d, q) THEN resto
             ELSE LET r == Calcular(d, q)
                  IN  IF Manter(r, cfg) THEN <<ToDict(d, r)>> \o resto
                      ELSE resto

\* variant of InsertDesc: x goes before the elements of equal porcentagem
\* (a sort that is not stable)
RECURSIVE InsertDescInstavel(_, _)
InsertDescInstavel(x, s) ==
    IF s = <<>> THEN <<x>>
    ELSE IF x.porcentagem >= Head(s).porcentagem THEN <<x>> \o s
    ELSE <<Head(s)>> \o InsertDescInstavel(x, Tail(s))

\* insert x into the list s sorted by porcentagem descending, after the
\* elements whose porcentagem is not smaller (x came later in the input)
RECURSIVE InsertDesc(_, _)
InsertDesc(x, s) ==
    IF s = <<>> THEN <<x>>
    ELSE IF x.porcentagem > Head(s).porcentagem THEN <<x>> \o s
    ELSE <<Head(s)>> \o InsertDesc(x, Tail(s))

\* resultados.sort(key=lambda x: x["porcentagem"], reverse=True): list.sort
\* is stable, also with reverse=True
RECURSIVE Ordenar(_)
Ordenar(rs) ==
    IF rs = <<>> THEN <<>>
    ELSE InsertDesc(rs[Len(rs)], Ordenar(SubSeq(rs, 1, Len(rs) - 1)))

\* variant of Limitar: one element too many is kept
LimitarUmAMais(rs, cfg) == Take(rs, cfg.LIMITE_RESULTADOS + 1)

\* resultados[:CONFIG["LIMITE_RESULTADOS"]]
Limitar(rs, cfg) == Take(rs, cfg.LIMITE_RESULTADOS)

\* self.cache[cache_key] = resultados
SalvarNoCache(c, key, resultados) ==
    [k \in DOMAIN c \cup {key} |-> IF k = key THEN resultados ELSE c[k]]

\* variant of AvaliarMiss: the list is stored in the cache before it is cut
AvaliarMissCacheAntesDoCorte(c, key, cat, q, cfg) ==
    LET mantidos == Varredura(cat, q, cfg)
        ordenados == Ordenar(mantidos)
    IN  [cache |-> SalvarNoCache(c, key, ordenados),
         retorno |-> Limitar(ordenados, cfg),
         mantidos |-> mantidos]

\* avaliar after a cache miss: the scan, the sort, the cut, the store and
\* the value returned (mantidos is the local list before it is sorted)
AvaliarMiss(c, key, cat, q, cfg) ==
    LET mantidos == Varredura(cat, q, cfg)
        resultados == Limitar(Ordenar(mantidos), cfg)
    IN  [cache |-> SalvarNoCache(c, key, resultados),
         retorno |-> resultados,
         mantidos |-> mantidos]

\* the empty dict
CacheVazio == [k \in {} |-> <<>>]

\* no entry stored yet
SemOrigem == [k \in {} |-> [doencas |-> <<>>, sintomas |-> <<>>]]

\* the value of cache_key when avaliar returned before computing it
SemChave == Md5Hex(<<"-">>)

\* no call made yet
SemChamada ==
    [op |-> "nenhuma", sintomas |-> <<>>, chave |-> SemChave,
     retorno |-> <<>>, hit |-> FALSE, mantidos |-> <<>>, varridas |-> 0,
     excecao |-> FALSE]

\* variant of avaliar without the test of the empty query at lines 78-79
AvaliarSemTesteVazio(q) ==
    /\ chamadas < MaxChamadas
    /\ chamadas' = chamadas + 1
    /\ anterior' = ultima
    /\ \E key \in {GerarCacheKey(q)} :
             IF key \in DOMAIN cache
             THEN /\ ultima' = [op |-> "avaliar", sintomas |-> q,
                                chave |-> key,
                                retorno |-> cache[key], hit |-> TRUE,
                                mantidos |-> <<>>, varridas |-> 0,
                                excecao |-> FALSE]
                  /\ cache' = cache
                  /\ origem' = origem
             ELSE IF VarreduraLevanta(doencas, q)
             THEN /\ ultima' = [op |-> "avaliar", sintomas |-> q,
                                chave |-> key,
                                retorno |-> <<>>, hit |-> FALSE,
                                mantidos |-> <<>>,
                                varridas |-> Varridas(doencas, q),
                                excecao |-> TRUE]
                  /\ cache' = cache
                  /\ origem' = origem
             ELSE \E m \in {AvaliarMiss(cache, key, doencas, q, CONFIG)} :
                      /\ cache' = m.cache
                      /\ origem' = [k \in DOMAIN origem \cup {key} |->
                             IF k = key
                             THEN [doencas |-> doencas, sintomas |-> q]
                             ELSE origem[k]]
                      /\ ultima' = [op |-> "avaliar", sintomas |-> q,
                                    chave |-> key,
                                    retorno |-> m.retorno, hit |-> FALSE,
                                    mantidos |-> m.mantidos,
                                    varridas |-> Len(doencas),
                                    excecao |-> FALSE]
    /\ UNCHANGED <<doencas, CONFIG, fios, calcVars, dadosVars>>

\* DiagnosticoEngine.avaliar(q).  ultima records the call: the query, the
\* local cache_key (chave), the value returned, whether it was served from
\* the cache (hit), the local list resultados as it was before sorting
\* (mantidos), the number of catalog entries the loop visited (varridas) and
\* whether the call raised instead of returning (excecao).
\* (\E x \in {e} binds x to the value of e.)
Avaliar(q) ==
    /\ chamadas < MaxChamadas
    /\ chamadas' = chamadas + 1
    /\ anterior' = ultima
    /\ IF q = <<>>
       THEN /\ ultima' = [SemChamada EXCEPT !.op = "avaliar"]
            /\ cache' = cache
            /\ origem' = origem
       ELSE \E key \in {GerarCacheKey(q)} :
                IF key \in DOMAIN cache
                THEN /\ ultima' = [op |-> "avaliar", sintomas |-> q,
                                   chave |-> key,
                                   retorno |-> cache[key], hit |-> TRUE,
                                   mantidos |-> <<>>, varridas |-> 0,
                                   excecao |-> FALSE]
                     /\ cache' = cache
                     /\ origem' = origem
                ELSE IF VarreduraLevanta(doencas, q)
                THEN /\ ultima' = [op |-> "avaliar", sintomas |-> q,
                                   chave |-> key,
                                   retorno |-> <<>>, hit |-> FALSE,
                                   mantidos |-> <<>>,
                                   varridas |-> Varridas(doencas, q),
                                   excecao |-> TRUE]
                     /\ cache' = cache
                     /\ origem' = origem
                ELSE \E m \in {AvaliarMiss(cache, key, doencas, q, CONFIG)} :
                         /\ cache' = m.cache
                         /\ origem' = [k \in DOMAIN origem \cup {key} |->
                                IF k = key
                                THEN [doencas |-> doencas, sintomas |-> q]
                                ELSE origem[k]]
                         /\ ultima' = [op |-> "avaliar", sintomas |-> q,
                                       chave |-> key,
                                       retorno |-> m.retorno, hit |-> FALSE,
                                       mantidos |-> m.mantidos,
                                       varridas |-> Len(doencas),
                                       excecao |-> FALSE]
    /\ UNCHANGED <<doencas, CONFIG, fios, calcVars, dadosVars>>

\* clear_cache that only logs and leaves the dict as it is
ClearCacheSemLimpar ==
    /\ cache' = cache
    /\ origem' = origem
    /\ ultima' = [SemChamada EXCEPT !.op = "clear"]
    /\ anterior' = ultima
    /\ UNCHANGED <<doencas, CONFIG, chamadas, fios, calcVars, dadosVars>>

\* DiagnosticoEngine.clear_cache
ClearCache ==
    /\ cache' = CacheVazio
    /\ origem' = SemOrigem
    /\ ultima' = [SemChamada EXCEPT !.op = "clear"]
    /\ anterior' = ultima
    /\ UNCHANGED <<doencas, CONFIG, chamadas, fios, calcVars, dadosVars>>

----------------------------------------------------------------------------
(* The engine called from several threads: avaliar line by line *)

Fios == 1..NumFios

\* a thread outside the engine, with the outcome of its last call: retorno
\* is the value returned and excecao tells that the call raised instead
FioLivre ==
    [pc |-> "livre", sintomas |-> <<>>, chave |-> SemChave,
     resultados |-> <<>>, retorno |-> <<>>, excecao |-> FALSE]

FiosLivres == [t \in Fios |-> FioLivre]

\* lines 76-81: thread t enters avaliar(q); an empty query returns at once,
\* otherwise the local cache_key is computed
AvaliarEntrada(t, q) ==
    /\ fios[t].pc = "livre"
    /\ chamadas < MaxChamadas
    /\ chamadas' = chamadas + 1
    /\ fios' = [fios EXCEPT ![t] =
           IF q = <<>>
           THEN FioLivre
           ELSE [FioLivre EXCEPT !.pc = "testar", !.sintomas = q,
                                 !.chave = GerarCacheKey(q)]]
    /\ UNCHANGED <<doencas, CONFIG, cache, origem, ultima, anterior, calcVars, dadosVars>>

\* line 83: `if cache_key in self.cache`
AvaliarTesteCache(t) ==
    /\ fios[t].pc = "testar"
    /\ fios' = [fios EXCEPT ![t].pc =
           IF fios[t].chave \in DOMAIN cache THEN "ler" ELSE "varrer"]
    /\ UNCHANGED <<doencas, CONFIG, cache, origem, ultima, anterior, chamadas,
                   calcVars, dadosVars>>

\* line 84: `return self.cache[cache_key]`; the subscription raises KeyError
\* when the key is not in the dict any more
AvaliarRetornoCache(t) ==
    /\ fios[t].pc = "ler"
    /\ fios' = [fios EXCEPT ![t] =
           IF fios[t].chave \in DOMAIN cache
           THEN [FioLivre EXCEPT !.retorno = cache[fios[t].chave]]
           ELSE [FioLivre EXCEPT !.excecao = TRUE]]
    /\ UNCHANGED <<doencas, CONFIG, cache, origem, ultima, anterior, chamadas,
                   calcVars, dadosVars>>

\* lines 86-104: the scan of db.doencas, the sort and the cut, on locals
AvaliarVarredura(t) ==
    /\ fios[t].pc = "varrer"
    /\ fios' = [fios EXCEPT ![t] =
           IF VarreduraLevanta(doencas, fios[t].sintomas)
           THEN [FioLivre EXCEPT !.excecao = TRUE]
           ELSE [fios[t] EXCEPT !.pc = "salvar",
                                !.resultados =
                                    Limitar(Ordenar(Varredura(doencas,
                                        fios[t].sintomas, CONFIG)), CONFIG)]]
    /\ UNCHANGED <<doencas, CONFIG, cache, origem, ultima, anterior, chamadas,
                   calcVars, dadosVars>>

\* lines 106-109: the store and the return
AvaliarSalvar(t) ==
    /\ fios[t].pc = "salvar"
    /\ cache' = SalvarNoCache(cache, fios[t].chave, fios[t].resultados)
    /\ origem' = [k \in DOMAIN origem \cup {fios[t].chave} |->
           IF k = fios[t].chave
           THEN [doencas |-> doencas, sintomas |-> fios[t].sintomas]
           ELSE origem[k]]
    /\ fios' = [fios EXCEPT ![t] =
           [FioLivre EXCEPT !.retorno = fios[t].resultados]]
    /\ UNCHANGED <<doencas, CONFIG, ultima, anterior, chamadas, calcVars, dadosVars>>

\* lines 142-145: clear_cache called by thread t; dict.clear() is one step
ClearCacheDoFio(t) ==
    /\ fios[t].pc = "livre"
    /\ cache' = CacheVazio
    /\ origem' = SemOrigem
    /\ fios' = [fios EXCEPT ![t] = FioLivre]
    /\ UNCHANGED <<doencas, CONFIG, ultima, anterior, chamadas, calcVars, dadosVars>>

----------------------------------------------------------------------------
(* The caller of avaliar and the list it was given *)

\* a record a caller may append to a list of results
RegistroDoChamador == [doenca |-> "X"]

\* what a caller does to the list object lista: alt names the statement
Alterar(lista, alt) ==
    CASE alt = "pop" -> IF lista = <<>> THEN lista ELSE Tail(lista)
      [] alt = "reverse" -> [i \in 1..Len(lista) |-> lista[Len(lista) + 1 - i]]
      [] alt = "append" -> IF InList(RegistroDoChamador, lista) THEN lista
                           ELSE Append(lista, RegistroDoChamador)
      [] alt = "clear" -> <<>>

Alteracoes == {"pop", "reverse", "append", "clear"}

\* the caller changes the list that its last call of avaliar returned.  The
\* call returned `self.cache[cache_key]` (line 84) or the list `resultados`
\* it had just stored (lines 107, 109): in both cases the very object the
\* dict holds under the key, so the statement acts on the cached value.
ChamadorAltera(alt) ==
    /\ ultima.op = "avaliar"
    /\ ultima.sintomas # <<>>
    /\ ~ultima.excecao
    /\ ultima.chave \in DOMAIN cache
    /\ cache' = [cache EXCEPT ![ultima.chave] = Alterar(@, alt)]
    /\ UNCHANGED <<doencas, CONFIG, origem, ultima, anterior, chamadas, fios,
                   calcVars, dadosVars>>

----------------------------------------------------------------------------
(* Database._carregar_doencas line by line, while the engine is called *)

\* lines 113-120: the file is read into data and db.doencas is bound to a
\* new empty list; the engine holds db, so its next scan reads this list
CarregarAbrir(cat) ==
    /\ carga.pc = "parado"
    /\ doencas' = <<>>
    /\ carga' = [carga EXCEPT !.pc = "enchendo", !.arquivo = cat]
    /\ UNCHANGED <<CONFIG, cache, origem, ultima, anterior, chamadas, fios,
                   calcVars, dmVars, dbVars, pacVars>>

\* lines 122-140: one condition of the file is appended to db.doencas
CarregarAppend ==
    /\ carga.pc = "enchendo"
    /\ Len(doencas) < Len(carga.arquivo)
    /\ doencas' = Append(doencas, carga.arquivo[Len(doencas) + 1])
    /\ UNCHANGED <<CONFIG, cache, origem, ultima, anterior, chamadas, fios,
                   carga, calcVars, dmVars, dbVars, pacVars>>

\* line 142: the loops are over, db.doencas holds the whole file
CarregarFim ==
    /\ carga.pc = "enchendo"
    /\ Len(doencas) = Len(carga.arquivo)
    /\ carga' = [carga EXCEPT !.pc = "parado",
                              !.completos = @ \cup {doencas}]
    /\ UNCHANGED <<doencas, CONFIG, cache, origem, ultima, anterior, chamadas,
                   fios, calcVars, dmVars, dbVars, pacVars>>

\* lines 143-146: the file cannot be read, db.doencas is bound to an empty
\* list and the loader returns
CarregarFalha ==
    /\ carga.pc = "parado"
    /\ doencas' = <<>>
    /\ carga' = [carga EXCEPT !.completos = @ \cup {<<>>}]
    /\ UNCHANGED <<CONFIG, cache, origem, ultima, anterior, chamadas, fios,
                   calcVars, dmVars, dbVars, pacVars>>

\* a reload that also empties the cache of the engine
RecarregarLimpandoCache(cat) ==
    /\ doencas' = cat
    /\ cache' = CacheVazio
    /\ UNCHANGED <<CONFIG, origem, ultima, anterior, chamadas, fios, calcVars, dadosVars>>

\* Database._carregar_doencas run again between two calls of the engine:
\* db.doencas becomes the catalog cat read from the file (the same one when the
\* file is missing, the empty one when reading fails).  The engine is not
\* told: it holds db and reads db.doencas at its next scan.
Recarregar(cat) ==
    /\ doencas' = cat
    /\ UNCHANGED <<CONFIG, cache, origem, ultima, anterior, chamadas, fios,
                   calcVars, dadosVars>>

\* the values of config.CONFIG replaced while the engine lives: CONFIG is
\* the module-level dict that avaliar subscripts at every call
MudarConfig(c) ==
    /\ CONFIG' = c
    /\ UNCHANGED <<doencas, cache, origem, ultima, anterior, chamadas, fios,
                   calcVars, dadosVars>>

----------------------------------------------------------------------------
(* Catalogs, configurations and queries the engine is run on *)

Sc == <<"c">>
Sf == <<"f">>
Sg == <<"g">>
Scf == <<"c", ",", "f">>

Entrada(nome, peso) == [s |-> nome, peso |-> peso]

Flu ==
    [nome |-> "Flu",
     sintomas |-> <<Entrada(Sf, 100), Entrada(Sc, 100), Entrada(Sg, 50)>>,
     condicoes |-> <<>>]

Gripe ==
    [nome |-> "Gripe",
     sintomas |-> <<Entrada(Sc, 100), Entrada(Sg, 50), Entrada(Sf, 100)>>,
     condicoes |-> [min_sintomas |-> 0, sintomas_obrigatorios |-> <<>>]]

Rare ==
    [nome |-> "Rare",
     sintomas |-> <<Entrada(Sc, 100)>>,
     condicoes |-> [sintomas_obrigatorios |-> <<Sf>>]]

Low ==
    [nome |-> "Low",
     sintomas |-> <<Entrada(Sf, 100), Entrada(Sg, 150)>>,
     condicoes |-> <<>>]

Virgula ==
    [nome |-> "Virgula",
     sintomas |-> <<Entrada(Scf, 100), [s |-> Sg]>>,
     condicoes |-> <<>>]

Dup ==
    [nome |-> "Dup",
     sintomas |-> <<Entrada(Sc, 100), Entrada(Sc, 100)>>,
     condicoes |-> [min_sintomas |-> 2]]

Par ==
    [nome |-> "Par",
     sintomas |-> <<Entrada(Sc, 100), Entrada(Sf, 100)>>,
     condicoes |-> [min_sintomas |-> 2]]

Vazia == [nome |-> "Vazia", sintomas |-> <<>>, condicoes |-> <<>>]

Catalogos ==
    { <<>>,
      <<Flu, Rare, Low>>,
      <<Gripe, Par, Flu, Virgula>>,
      <<Dup, Vazia, Par>> }

\* config.CONFIG as shipped (5.0 percent, 50 results, 1000 cache entries)
\* and a configuration with a minimum of 50.0 percent, 2 results and
\* 1 cache entry
Configs ==
    { [PORCENTAGEM_MINIMA |-> 50, LIMITE_RESULTADOS |-> 50,
       CACHE_MAX_SIZE |-> 1000],
      [PORCENTAGEM_MINIMA |-> 500, LIMITE_RESULTADOS |-> 2,
       CACHE_MAX_SIZE |-> 1] }

NomesConsulta == {Sc, Sf}

\* the queries: the lists of c and f, and the single symptom "c,f"
Consultas == SeqsUpTo(NomesConsulta, MaxSintomasConsulta) \cup {<<Scf>>}

\* the catalogs a reload switches between (the empty one is what a failed
\* read leaves), and the queries made meanwhile
CatalogosRecarga == {<<>>, <<Flu, Rare, Low>>, <<Dup, Vazia, Par>>}

ConsultasRecarga == {<<Sc>>, <<Sf>>, <<Sc, Sf>>, <<>>}

\* conditions whose records are malformed: a symptom record without the
\* key "s", a weight that is not a number, and a record without "s" in a
\* condition that sets min_sintomas
SemNome ==
    [nome |-> "SemNome",
     sintomas |-> <<Entrada(Sc, 100), [peso |-> 100]>>,
     condicoes |-> <<>>]

PesoRuim ==
    [nome |-> "PesoRuim",
     sintomas |-> <<[s |-> Sc, peso_texto |-> <<"a", "b", "c">>]>>,
     condicoes |-> [sintomas_obrigatorios |-> <<Sf>>]]

SemNomeMin ==
    [nome |-> "SemNomeMin",
     sintomas |-> <<[peso |-> 100], Entrada(Sf, 100)>>,
     condicoes |-> [sintomas_obrigatorios |-> <<Sc>>, min_sintomas |-> 1]]

\* catalogs holding one malformed condition among well-formed ones
CatalogosMalformados ==
    {<<Flu, SemNome, Low>>, <<PesoRuim, Flu, Rare>>, <<Gripe, Par, SemNomeMin>>,
     <<Flu, Rare, Low>>}

\* the contents of the catalog file at a load, and the queries made
\* while it is loaded
CatalogosCarga == {<<Flu, Rare, Low>>, <<Dup, Vazia, Par>>}

ConsultasCarga == {<<Sc>>, <<Sc, Sf>>}

\* the catalogs and the queries of the concurrent callers
CatalogosConcorrentes == {<<Flu, Rare, Low>>, <<Dup, Vazia, Par>>}

ConsultasConcorrentes == {<<Sc>>, <<Sf>>, <<>>}

----------------------------------------------------------------------------
(* Conditions and queries the scorer and the filter are run on *)

EntradasCalc ==
    {Entrada(n, p) : n \in {Sc, Sf}, p \in {50, 100}}
        \cup {Entrada(Sg, 50), [s |-> Sg]}

CondicoesCalc ==
    { <<>> } \cup
    { [sintomas_obrigatorios |-> o, min_sintomas |-> m] :
          o \in {<<>>, <<Sf>>, <<Sc, Sf>>}, m \in 0..MaxMinSintomas }

DoencasCalc ==
    { [nome |-> "D", sintomas |-> ss, condicoes |-> cs] :
          ss \in SeqsUpTo(EntradasCalc, MaxSintomasDoenca),
          cs \in CondicoesCalc }

ConsultasCalc == SeqsUpTo({Sc, Sf}, MaxSintomasConsulta)

\* the queries one selection away from q: a symptom added at the end or one
\* position removed
ConsultasVizinhas(q) ==
    {Append(q, s) : s \in IF Len(q) < MaxSintomasConsulta
                          THEN {Sc, Sf} ELSE {}}
        \cup {SubSeq(q, 1, i - 1) \o SubSeq(q, i + 1, Len(q)) : i \in 1..Len(q)}

\* ResultadoDiagnostico(doenca, sintomas)
NovoResultado ==
    /\ elegivel # "parado"
    /\ ~calculado
    /\ resultado' = Calcular(doenca, sintomas)
    /\ calculado' = TRUE
    /\ UNCHANGED <<doenca, sintomas, elegivel, calculoAnterior, engineVars, dadosVars>>

\* ResultadoDiagnostico(doenca, q2): the same condition scored again with
\* another query; the former object is kept aside for comparison
OutraConsulta(q2) ==
    /\ calculado
    /\ calculoAnterior' = <<[sintomas |-> sintomas, resultado |-> resultado]>>
    /\ sintomas' = q2
    /\ resultado' = Calcular(doenca, q2)
    /\ elegivel' = IF elegivel = "parado" THEN "parado" ELSE "pendente"
    /\ UNCHANGED <<doenca, calculado, engineVars, dadosVars>>

\* engine._verificar_condicoes(doenca, sintomas)
Verificar ==
    /\ elegivel = "pendente"
    /\ elegivel' = IF VerificarCondicoes(doenca, sintomas) THEN "sim" ELSE "nao"
    /\ UNCHANGED <<doenca, sintomas, resultado, calculado, calculoAnterior,
                   engineVars, dadosVars>>

----------------------------------------------------------------------------
(* The cache of DataManager *)

\* what _get_from_cache returns when it has no live entry for the key
Nenhum == "None"

\* position of key in the dict, 0 when it is not a key of it
PosicaoDe(c, key) ==
    IF \E i \in 1..Len(c) : c[i].key = key
    THEN CHOOSE i \in 1..Len(c) : c[i].key = key
    ELSE 0

\* del self.cache[key] for the key at position i
RemoverPosicao(c, i) == SubSeq(c, 1, i - 1) \o SubSeq(c, i + 1, Len(c))

\* min(self.cache.keys(), key=lambda k: self.cache[k].hits), as a position:
\* the first key in dict order among those with the fewest hits
MenosUsada(c) ==
    CHOOSE i \in 1..Len(c) :
        /\ \A j \in 1..Len(c) : c[i].hits <= c[j].hits
        /\ \A j \in 1..(i - 1) : c[j].hits > c[i].hits

\* self.cache[key] = entry: a key already in the dict keeps its position
Atribuir(c, e) ==
    IF PosicaoDe(c, e.key) = 0
    THEN Append(c, e)
    ELSE [c EXCEPT ![PosicaoDe(c, e.key)] = e]

\* DataManager._get_from_cache(key) at time now: the object afterwards and
\* the value returned
AposGet(g, key, now) ==
    LET i == PosicaoDe(g.cache, key)
    IN  IF i = 0
        THEN [gerenciador |-> g, retorno |-> Nenhum]
        ELSE IF now - g.cache[i].timestamp < g.cache_ttl
        THEN [gerenciador |-> [g EXCEPT !.cache[i].hits = @ + 1],
              retorno |-> g.cache[i].data]
        ELSE [gerenciador |-> [g EXCEPT !.cache = RemoverPosicao(@, i)],
              retorno |-> Nenhum]

\* DataManager._save_to_cache(key, data) at time now: the object afterwards
AposSave(g, key, data, now) ==
    LET c1 == IF Len(g.cache) >= g.cache_max_size
              THEN RemoverPosicao(g.cache, MenosUsada(g.cache))
              ELSE g.cache
    IN  [g EXCEPT !.cache =
            Atribuir(c1, [key |-> key, data |-> data, timestamp |-> now,
                          hits |-> 1])]

\* sum(entry.hits for entry in self.cache.values())
RECURSIVE SomaHits(_)
SomaHits(c) == IF c = <<>> THEN 0 ELSE c[1].hits + SomaHits(Tail(c))

\* round(num / den, 2) in hundredths, for den > 0: the nearest hundredth,
\* a tie going to the even hundredth
RoundCentesimos(num, den) ==
    LET n == 100 * num
        fl == n \div den
        r2 == 2 * (n - fl * den)
    IN  IF r2 < den THEN fl
        ELSE IF r2 > den THEN fl + 1
        ELSE IF fl % 2 = 0 THEN fl ELSE fl + 1

\* the dict returned by DataManager.get_cache_stats, avg_hits in hundredths
Stats(g) ==
    [total_entradas |-> Len(g.cache),
     total_hits |-> SomaHits(g.cache),
     avg_hits |-> IF Len(g.cache) > 0
                  THEN RoundCentesimos(SomaHits(g.cache), Len(g.cache))
                  ELSE 0,
     ttl |-> g.cache_ttl]

SemStats == [total_entradas |-> 0, total_hits |-> 0, avg_hits |-> 0, ttl |-> 0]

\* no call made on the DataManager cache yet
SemPedido ==
    [op |-> "nenhuma", key |-> "-", retorno |-> Nenhum, antes |-> <<>>,
     quando |-> 0, stats |-> SemStats]

\* the keys and the values stored: carregar_banco uses "banco_dados"
ChavesCache == {"banco_dados", "k2", "k3"}

DadosCache == {"d1", "d2"}

\* DataManager._get_from_cache(key)
GetFromCache(key) ==
    /\ operacoes < MaxOperacoes
    /\ operacoes' = operacoes + 1
    /\ gerenciador' = AposGet(gerenciador, key, relogio).gerenciador
    /\ pedido' = [SemPedido EXCEPT !.op = "get", !.key = key,
                      !.retorno = AposGet(gerenciador, key, relogio).retorno,
                      !.antes = gerenciador.cache, !.quando = relogio]
    /\ UNCHANGED <<relogio, carga, engineVars, calcVars, dbVars, pacVars>>

\* DataManager._save_to_cache(key, data)
SaveToCache(key, data) ==
    /\ operacoes < MaxOperacoes
    /\ operacoes' = operacoes + 1
    /\ gerenciador' = AposSave(gerenciador, key, data, relogio)
    /\ pedido' = [SemPedido EXCEPT !.op = "save", !.key = key,
                      !.antes = gerenciador.cache, !.quando = relogio]
    /\ UNCHANGED <<relogio, carga, engineVars, calcVars, dbVars, pacVars>>

\* DataManager.clear_cache
ClearCacheDoGerenciador ==
    /\ operacoes < MaxOperacoes
    /\ operacoes' = operacoes + 1
    /\ gerenciador' = [gerenciador EXCEPT !.cache = <<>>]
    /\ pedido' = [SemPedido EXCEPT !.op = "clear",
                      !.antes = gerenciador.cache, !.quando = relogio]
    /\ UNCHANGED <<relogio, carga, engineVars, calcVars, dbVars, pacVars>>

\* DataManager.get_cache_stats
GetCacheStats ==
    /\ operacoes < MaxOperacoes
    /\ operacoes' = operacoes + 1
    /\ pedido' = [SemPedido EXCEPT !.op = "stats",
                      !.antes = gerenciador.cache, !.quando = relogio,
                      !.stats = Stats(gerenciador)]
    /\ UNCHANGED <<gerenciador, relogio, carga, engineVars, calcVars, dbVars,
                   pacVars>>

\* a second goes by
PassarTempo ==
    /\ relogio < MaxRelogio
    /\ relogio' = relogio + 1
    /\ UNCHANGED <<gerenciador, pedido, operacoes, carga, engineVars, calcVars,
                   dbVars, pacVars>>

\* DataManager.__init__ with config.CONFIG as shipped: cache_ttl 300 and
\* cache_max_size 1000
GerenciadorInicial ==
    /\ gerenciador = [cache |-> <<>>, cache_ttl |-> 300,
                      cache_max_size |-> 1000]
    /\ relogio = 0
    /\ pedido = SemPedido
    /\ operacoes = 0

\* the CACHE_TTL and the CACHE_MAX_SIZE values the DataManager cache is run
\* with
TtlCache == 2

TamanhosCache == {2, 3}

----------------------------------------------------------------------------
(* Database(): __new__ and __init__ line by line, called from several threads *)

\* a thread outside Database(), with the objects its calls have returned
ConstrutorLivre == [pc |-> "fora", obj |-> 0, obtidas |-> {}]

ConstrutoresLivres == [t \in Fios |-> ConstrutorLivre]

\* object.__new__(Database): no _initialized attribute, nothing loaded
ObjetoNovo == [inicializado |-> FALSE, carregamentos |-> 0]

\* Database() returns obj to thread t
Entregar(c, obj) ==
    [pc |-> "fora", obj |-> 0, obtidas |-> c.obtidas \cup {obj}]

\* line 24: `if cls._instance is None`
NewTeste(t) ==
    /\ construtores[t].pc = "fora"
    /\ construtores' = [construtores EXCEPT ![t].pc =
           IF instancia = 0 THEN "criar" ELSE "retornar"]
    /\ UNCHANGED <<instancia, objetos, trava, carga, engineVars, calcVars,
                   dmVars, pacVars>>

\* line 25: `cls._instance = super().__new__(cls)`
NewCriar(t) ==
    /\ construtores[t].pc = "criar"
    /\ objetos' = Append(objetos, ObjetoNovo)
    /\ instancia' = Len(objetos) + 1
    /\ construtores' = [construtores EXCEPT ![t].pc = "retornar"]
    /\ UNCHANGED <<trava, carga, engineVars, calcVars, dmVars, pacVars>>

\* line 26: `return cls._instance`, and the call of __init__ on that object
NewRetornar(t) ==
    /\ construtores[t].pc = "retornar"
    /\ construtores' = [construtores EXCEPT ![t].pc = "testar",
                                            ![t].obj = instancia]
    /\ UNCHANGED <<instancia, objetos, trava, carga, engineVars, calcVars,
                   dmVars, pacVars>>

\* lines 30-31: the test of _initialized made without the lock
InitTeste(t) ==
    /\ construtores[t].pc = "testar"
    /\ construtores' = [construtores EXCEPT ![t] =
           IF objetos[construtores[t].obj].inicializado
           THEN Entregar(construtores[t], construtores[t].obj)
           ELSE [construtores[t] EXCEPT !.pc = "travar"]]
    /\ UNCHANGED <<instancia, objetos, trava, carga, engineVars, calcVars,
                   dmVars, pacVars>>

\* line 33: `with self._lock`
InitTravar(t) ==
    /\ construtores[t].pc = "travar"
    /\ trava = 0
    /\ trava' = t
    /\ construtores' = [construtores EXCEPT ![t].pc = "testar2"]
    /\ UNCHANGED <<instancia, objetos, carga, engineVars, calcVars, dmVars,
                   pacVars>>

\* lines 34-35: the test of _initialized made again under the lock
InitTeste2(t) ==
    /\ construtores[t].pc = "testar2"
    /\ IF objetos[construtores[t].obj].inicializado
       THEN /\ trava' = 0
            /\ construtores' = [construtores EXCEPT ![t] =
                   Entregar(construtores[t], construtores[t].obj)]
       ELSE /\ trava' = trava
            /\ construtores' = [construtores EXCEPT ![t].pc = "carregar"]
    /\ UNCHANGED <<instancia, objetos, carga, engineVars, calcVars, dmVars,
                   pacVars>>

\* lines 37-50: the fields are set and _carregar_dados reads the files
InitCarregar(t) ==
    /\ construtores[t].pc = "carregar"
    /\ objetos' = [objetos EXCEPT ![construtores[t].obj].carregamentos = @ + 1]
    /\ construtores' = [construtores EXCEPT ![t].pc = "marcar"]
    /\ UNCHANGED <<instancia, trava, carga, engineVars, calcVars, dmVars,
                   pacVars>>

\* line 51: `self._initialized = True`, and the lock is released
InitMarcar(t) ==
    /\ construtores[t].pc = "marcar"
    /\ objetos' = [objetos EXCEPT ![construtores[t].obj].inicializado = TRUE]
    /\ trava' = 0
    /\ construtores' = [construtores EXCEPT ![t] =
           Entregar(construtores[t], construtores[t].obj)]
    /\ UNCHANGED <<instancia, carga, engineVars, calcVars, dmVars, pacVars>>

\* one Database object, built once by the interface, and nobody inside
\* Database()
BancoInicial ==
    /\ instancia = 1
    /\ objetos = <<[inicializado |-> TRUE, carregamentos |-> 1]>>
    /\ trava = 0
    /\ construtores = ConstrutoresLivres

----------------------------------------------------------------------------
(* The patient collection of Database *)

\* the ids of the patients, and the CPF numbers: "" is a patient without CPF
IdsPacientes == {"p1", "p2", "p3"}

Cpfs == {"", "111", "222"}

\* the Paciente objects handed to adicionar_paciente
PacientesNovos == [id : IdsPacientes, cpf : Cpfs, ativo : BOOLEAN]

\* the keyword arguments of atualizar_paciente: cpf=..., ativo=..., both or
\* none of them
Atualizacoes ==
    {at \in [temCpf : BOOLEAN, cpf : Cpfs, temAtivo : BOOLEAN,
             ativo : BOOLEAN] :
        /\ ~at.temCpf => at.cpf = ""
        /\ ~at.temAtivo => at.ativo}

\* the empty dict
SemPacientes == [i \in {} |-> [cpf |-> "", ativo |-> TRUE]]

\* no call made on the patient collection yet
SemCadastro ==
    [op |-> "nenhuma", id |-> "-", cpf |-> "", resultado |-> "-",
     antes |-> SemPacientes]

\* lines 171-174: the CPF is not empty and an active patient has it
CpfJaCadastrado(ps, cpf) ==
    /\ cpf # ""
    /\ \E i \in DOMAIN ps : ps[i].cpf = cpf /\ ps[i].ativo

\* self.pacientes[paciente.id] = paciente
Inserir(ps, pac) ==
    [i \in DOMAIN ps \cup {pac.id} |->
        IF i = pac.id THEN [cpf |-> pac.cpf, ativo |-> pac.ativo] ELSE ps[i]]

\* the setattr loop of atualizar_paciente on one patient
Atualizado(pac, at) ==
    [cpf |-> IF at.temCpf THEN at.cpf ELSE pac.cpf,
     ativo |-> IF at.temAtivo THEN at.ativo ELSE pac.ativo]

\* Database.adicionar_paciente(pac); salvou is what salvar_pacientes
\* returns: False when the backup or the write of the file failed
AdicionarPaciente(pac, salvou) ==
    /\ IF CpfJaCadastrado(pacientes, pac.cpf)
       THEN /\ pacientes' = pacientes
            /\ cadastro' = [op |-> "adicionar", id |-> pac.id,
                            cpf |-> pac.cpf, resultado |-> "ValueError",
                            antes |-> pacientes]
       ELSE /\ pacientes' = Inserir(pacientes, pac)
            /\ cadastro' = [op |-> "adicionar", id |-> pac.id,
                            cpf |-> pac.cpf,
                            resultado |-> IF salvou THEN "True" ELSE "False",
                            antes |-> pacientes]
    /\ UNCHANGED <<carga, engineVars, calcVars, dmVars, dbVars>>

\* Database.atualizar_paciente(id, **at)
AtualizarPaciente(id, at, salvou) ==
    /\ IF id \notin DOMAIN pacientes
       THEN /\ pacientes' = pacientes
            /\ cadastro' = [op |-> "atualizar", id |-> id, cpf |-> "",
                            resultado |-> "False", antes |-> pacientes]
       ELSE /\ pacientes' = [pacientes EXCEPT ![id] = Atualizado(@, at)]
            /\ cadastro' = [op |-> "atualizar", id |-> id,
                            cpf |-> Atualizado(pacientes[id], at).cpf,
                            resultado |-> IF salvou THEN "True" ELSE "False",
                            antes |-> pacientes]
    /\ UNCHANGED <<carga, engineVars, calcVars, dmVars, dbVars>>

\* Database.__init__ line 41, with no patients file to read
PacientesInicial ==
    /\ pacientes = SemPacientes
    /\ cadastro = SemCadastro

----------------------------------------------------------------------------
(* Specifications *)

\* the engine on a loaded catalog
Init ==
    /\ doencas \in Catalogos
    /\ CONFIG \in Configs
    /\ cache = CacheVazio
    /\ ultima = SemChamada
    /\ anterior = SemChamada
    /\ chamadas = 0
    /\ origem = SemOrigem
    /\ fios = FiosLivres
    /\ carga = [pc |-> "parado", arquivo |-> <<>>, completos |-> {doencas}]
    /\ GerenciadorInicial
    /\ BancoInicial
    /\ PacientesInicial
    /\ doenca = Vazia
    /\ sintomas = <<>>
    /\ resultado = ResultadoInicial
    /\ elegivel = "parado"
    /\ calculado = FALSE
    /\ calculoAnterior = <<>>

Next ==
    \/ \E q \in Consultas : Avaliar(q)
    \/ ClearCache

Spec == Init /\ [][Next]_vars

\* the scorer and the filter on one condition and one query
InitCalc ==
    /\ doencas = <<>>
    /\ CONFIG \in {c \in Configs : c.LIMITE_RESULTADOS = 50}
    /\ cache = CacheVazio
    /\ ultima = SemChamada
    /\ anterior = SemChamada
    /\ chamadas = 0
    /\ origem = SemOrigem
    /\ fios = FiosLivres
    /\ carga = [pc |-> "parado", arquivo |-> <<>>, completos |-> {doencas}]
    /\ GerenciadorInicial
    /\ BancoInicial
    /\ PacientesInicial
    /\ doenca \in DoencasCalc
    /\ sintomas \in ConsultasCalc
    /\ resultado = ResultadoInicial
    /\ elegivel = "pendente"
    /\ calculado = FALSE
    /\ calculoAnterior = <<>>

NextCalc ==
    \/ NovoResultado
    \/ Verificar

SpecCalc == InitCalc /\ [][NextCalc]_vars

\* the scorer on one condition and a succession of queries
InitConsultas ==
    /\ InitCalc
    /\ doenca.condicoes = <<>>

NextConsultas ==
    \/ NovoResultado
    \/ \E q2 \in ConsultasVizinhas(sintomas) : OutraConsulta(q2)

SpecConsultas == InitConsultas /\ [][NextConsultas]_vars

\* the engine on catalogs that hold a malformed condition
InitMalformada ==
    /\ doencas \in CatalogosMalformados
    /\ CONFIG \in Configs
    /\ cache = CacheVazio
    /\ ultima = SemChamada
    /\ anterior = SemChamada
    /\ chamadas = 0
    /\ origem = SemOrigem
    /\ fios = FiosLivres
    /\ carga = [pc |-> "parado", arquivo |-> <<>>, completos |-> {doencas}]
    /\ GerenciadorInicial
    /\ BancoInicial
    /\ PacientesInicial
    /\ doenca = Vazia
    /\ sintomas = <<>>
    /\ resultado = ResultadoInicial
    /\ elegivel = "parado"
    /\ calculado = FALSE
    /\ calculoAnterior = <<>>

SpecMalformada == InitMalformada /\ [][Next]_vars

\* the engine called by NumFios threads at once
InitConcorrente ==
    /\ Init
    /\ doencas \in CatalogosConcorrentes

NextConcorrente ==
    \E t \in Fios :
        \/ \E q \in ConsultasConcorrentes : AvaliarEntrada(t, q)
        \/ AvaliarTesteCache(t)
        \/ AvaliarRetornoCache(t)
        \/ AvaliarVarredura(t)
        \/ AvaliarSalvar(t)
        \/ ClearCacheDoFio(t)

SpecConcorrente == InitConcorrente /\ [][NextConcorrente]_vars

\* the engine called while another thread runs _carregar_doencas
InitCarga ==
    /\ Init
    /\ doencas \in CatalogosCarga

NextCarga ==
    \/ \E q \in ConsultasCarga : Avaliar(q)
    \/ \E cat \in CatalogosCarga : CarregarAbrir(cat)
    \/ CarregarAppend
    \/ CarregarFim
    \/ CarregarFalha

SpecCarga == InitCarga /\ [][NextCarga]_vars

\* the engine and a caller that changes the lists it is given
NextAlias ==
    \/ \E q \in ConsultasRecarga : Avaliar(q)
    \/ ClearCache
    \/ \E alt \in Alteracoes : ChamadorAltera(alt)

SpecAlias == InitConcorrente /\ [][NextAlias]_vars

\* the engine while the catalog is reloaded between its calls
InitRecarga ==
    /\ Init
    /\ doencas \in CatalogosRecarga

NextRecarga ==
    \/ \E q \in ConsultasRecarga : Avaliar(q)
    \/ ClearCache
    \/ \E cat \in CatalogosRecarga : Recarregar(cat)

SpecRecarga == InitRecarga /\ [][NextRecarga]_vars

\* the engine while the configuration is changed between its calls
NextConfig ==
    \/ \E q \in ConsultasRecarga : Avaliar(q)
    \/ ClearCache
    \/ \E c \in Configs : MudarConfig(c)

SpecConfig == InitRecarga /\ [][NextConfig]_vars

\* nothing but the objects being constructed: an engine on an empty
\* catalog that is never called
InitParado ==
    /\ doencas = <<>>
    /\ CONFIG = [PORCENTAGEM_MINIMA |-> 50, LIMITE_RESULTADOS |-> 50,
                 CACHE_MAX_SIZE |-> 1000]
    /\ cache = CacheVazio
    /\ ultima = SemChamada
    /\ anterior = SemChamada
    /\ chamadas = 0
    /\ origem = SemOrigem
    /\ fios = FiosLivres
    /\ carga = [pc |-> "parado", arquivo |-> <<>>, completos |-> {doencas}]
    /\ doenca = Vazia
    /\ sintomas = <<>>
    /\ resultado = ResultadoInicial
    /\ elegivel = "parado"
    /\ calculado = FALSE
    /\ calculoAnterior = <<>>

\* the cache of a DataManager built with a small CACHE_TTL and a small
\* CACHE_MAX_SIZE
InitCache ==
    /\ InitParado
    /\ gerenciador \in [cache : {<<>>}, cache_ttl : {TtlCache},
                         cache_max_size : TamanhosCache]
    /\ relogio = 0
    /\ pedido = SemPedido
    /\ operacoes = 0
    /\ BancoInicial
    /\ PacientesInicial

NextCache ==
    \/ \E key \in ChavesCache : GetFromCache(key)
    \/ \E key \in ChavesCache, data \in DadosCache : SaveToCache(key, data)
    \/ ClearCacheDoGerenciador
    \/ GetCacheStats
    \/ PassarTempo

SpecCache == InitCache /\ [][NextCache]_vars

\* NumFios threads calling Database() before any Database object exists
InitSingleton ==
    /\ InitParado
    /\ GerenciadorInicial
    /\ instancia = 0
    /\ objetos = <<>>
    /\ trava = 0
    /\ construtores = ConstrutoresLivres
    /\ PacientesInicial

NextSingleton ==
    \E t \in Fios :
        \/ NewTeste(t)
        \/ NewCriar(t)
        \/ NewRetornar(t)
        \/ InitTeste(t)
        \/ InitTravar(t)
        \/ InitTeste2(t)
        \/ InitCarregar(t)
        \/ InitMarcar(t)

SpecSingleton == InitSingleton /\ [][NextSingleton]_vars

\* the patient collection of a Database under adicionar_paciente and
\* atualizar_paciente
InitPacientes ==
    /\ InitParado
    /\ GerenciadorInicial
    /\ BancoInicial
    /\ PacientesInicial

NextPacientes ==
    \/ \E pac \in PacientesNovos, salvou \in BOOLEAN :
           AdicionarPaciente(pac, salvou)
    \/ \E id \in IdsPacientes, at \in Atualizacoes, salvou \in BOOLEAN :
           AtualizarPaciente(id, at, salvou)

SpecPacientes == InitPacientes /\ [][NextPacientes]_vars

----------------------------------------------------------------------------
(* Helpers of the properties *)

\* the set of elements of a list
Elementos(s) == {s[i] : i \in 1..Len(s)}

\* number of positions of s holding x
Ocorrencias(x, s) == Cardinality({i \in 1..Len(s) : s[i] = x})

\* b is a rearrangement of a
MesmaOrdemTrocada(a, b) ==
    /\ Len(a) = Len(b)
    /\ \A x \in Elementos(a) \cup Elementos(b) :
           Ocorrencias(x, a) = Ocorrencias(x, b)

\* sum of the weights of the entries of ss at the positions in I
RECURSIVE SomaPesos(_, _)
SomaPesos(ss, I) ==
    IF I = {} THEN 0
    ELSE LET i == CHOOSE j \in I : TRUE
         IN  PesoDe(ss[i]) + SomaPesos(ss, I \ {i})

\* positions of the entries of ss whose name is in the query q
PosicoesNaConsulta(ss, q) == {i \in 1..Len(ss) : ss[i].s \in Elementos(q)}

\* the catalog entries called nome
DoencasDeNome(nome) ==
    {n \in 1..Len(doencas) : doencas[n].nome = nome}

\* a call of avaliar with a non-empty query
ChamadaNaoVazia(c) == c.op = "avaliar" /\ c.sintomas # <<>>

----------------------------------------------------------------------------
(* C1 *)

\* C1: after the scorer has run on a condition and a query, pontuacao_maxima
\* is the sum of the weights of all symptom entries of the condition,
\* pontuacao_bruta is the sum of the weights of exactly the entries whose
\* name is in the query, and porcentagem is round(100 * bruta / maxima, 1)
\* (0 when maxima is 0); this is so for each entry, also when a name is
\* listed more than once.
C1_PontuacaoPorEntrada ==
    calculado =>
        LET ss == doenca.sintomas
            maxima == SomaPesos(ss, 1..Len(ss))
            bruta == SomaPesos(ss, PosicoesNaConsulta(ss, sintomas))
        IN  /\ resultado.pontuacao_maxima = maxima
            /\ resultado.pontuacao_bruta = bruta
            /\ resultado.porcentagem =
                   IF maxima > 0 THEN RoundTenths(bruta, maxima) ELSE 0

----------------------------------------------------------------------------
(* C2 *)

\* C2: no result returned by avaliar names a condition of the catalog one
\* of whose sintomas_obrigatorios is absent from the query of that call.
C2_ObrigatoriosAbsolutos ==
    ChamadaNaoVazia(ultima) =>
        \A i \in 1..Len(ultima.retorno) :
            \A n \in DoencasDeNome(ultima.retorno[i].doenca) :
                \A o \in Elementos(ObrigatoriosDe(doencas[n])) :
                    o \in Elementos(ultima.sintomas)

----------------------------------------------------------------------------
(* C3 *)

----------------------------------------------------------------------------
(* C4 *)

\* C4: after a cache miss, the list kept by the scan holds a result for a
\* condition of the catalog if and only if the condition passes
\* _verificar_condicoes and its porcentagem is >= PORCENTAGEM_MINIMA; every
\* result returned is one of the kept ones and has porcentagem >=
\* PORCENTAGEM_MINIMA.
C4_MantidosNoMiss ==
    (ChamadaNaoVazia(ultima) /\ ~ultima.hit) =>
        /\ \A n \in 1..Len(doencas) :
               (\E i \in 1..Len(ultima.mantidos) :
                    ultima.mantidos[i].doenca = doencas[n].nome)
               <=> (/\ VerificarCondicoes(doencas[n], ultima.sintomas)
                    /\ Calcular(doencas[n], ultima.sintomas).porcentagem
                           >= CONFIG.PORCENTAGEM_MINIMA)
        /\ Len(ultima.mantidos) <= Len(doencas)
        /\ \A i \in 1..Len(ultima.retorno) :
               /\ ultima.retorno[i] \in Elementos(ultima.mantidos)
               /\ ultima.retorno[i].porcentagem >= CONFIG.PORCENTAGEM_MINIMA

\* with a minimum of 50.0, a condition at 80.0 is returned and an eligible
\* condition at 40.0 is not
C4_Witness ==
    /\ ChamadaNaoVazia(ultima) /\ ~ultima.hit
    /\ CONFIG.PORCENTAGEM_MINIMA = 500
    /\ \E i \in 1..Len(ultima.retorno) : ultima.retorno[i].porcentagem = 800
    /\ \E n \in 1..Len(doencas) :
           /\ VerificarCondicoes(doencas[n], ultima.sintomas)
           /\ Calcular(doencas[n], ultima.sintomas).porcentagem = 400
           /\ \A i \in 1..Len(ultima.retorno) :
                  ultima.retorno[i].doenca # doencas[n].nome

----------------------------------------------------------------------------
(* C5 *)

\* C5: the list returned by avaliar is in descending order of porcentagem,
\* and two results of equal porcentagem are in the order of their
\* conditions in the catalog.
C5_OrdemDecrescenteEstavel ==
    ChamadaNaoVazia(ultima) =>
        \A i, j \in 1..Len(ultima.retorno) :
            i < j =>
                /\ ultima.retorno[i].porcentagem
                       >= ultima.retorno[j].porcentagem
                /\ ultima.retorno[i].porcentagem
                       = ultima.retorno[j].porcentagem
                   => \A n \in DoencasDeNome(ultima.retorno[i].doenca),
                         m \in DoencasDeNome(ultima.retorno[j].doenca) :
                          n < m

\* a list with a tie and with a strict descent was returned
C5_Witness ==
    /\ ChamadaNaoVazia(ultima)
    /\ Len(ultima.retorno) >= 3
    /\ \E i \in 1..(Len(ultima.retorno) - 1) :
           ultima.retorno[i].porcentagem = ultima.retorno[i + 1].porcentagem
    /\ \E i \in 1..(Len(ultima.retorno) - 1) :
           ultima.retorno[i].porcentagem > ultima.retorno[i + 1].porcentagem

----------------------------------------------------------------------------
(* C6 *)

\* C6: avaliar never returns more than LIMITE_RESULTADOS results; after a
\* miss it returns min(LIMITE_RESULTADOS, number of kept results) of the
\* kept results, each once, and no kept result that was dropped has a
\* higher porcentagem than a returned one.
C6_LimiteDepoisDeOrdenar ==
    ChamadaNaoVazia(ultima) =>
        /\ Len(ultima.retorno) <= CONFIG.LIMITE_RESULTADOS
        /\ ~ultima.hit =>
               /\ Len(ultima.retorno) =
                      Min2(CONFIG.LIMITE_RESULTADOS, Len(ultima.mantidos))
               /\ \A i \in 1..Len(ultima.retorno) :
                      Ocorrencias(ultima.retorno[i], ultima.retorno)
                          = Ocorrencias(ultima.retorno[i], ultima.mantidos)
               /\ \A k \in 1..Len(ultima.mantidos) :
                      ultima.mantidos[k] \notin Elementos(ultima.retorno)
                      => \A i \in 1..Len(ultima.retorno) :
                             ultima.mantidos[k].porcentagem
                                 <= ultima.retorno[i].porcentagem

\* a miss kept more results than the limit, in an order that differs from
\* the ranking
C6_Witness ==
    /\ ChamadaNaoVazia(ultima) /\ ~ultima.hit
    /\ Len(ultima.mantidos) > CONFIG.LIMITE_RESULTADOS
    /\ Len(ultima.retorno) = CONFIG.LIMITE_RESULTADOS
    /\ ultima.retorno[1] # ultima.mantidos[1]

----------------------------------------------------------------------------
(* C7 *)

\* C7: when avaliar(B) directly follows avaliar(A) and B is A in another
\* order, the call for B is served from the cache under the key of A: the
\* keys are equal, no catalog entry is visited, the cache has an entry for
\* that key and B returns what A returned.
C7_OutraOrdemMesmaEntrada ==
    (/\ ChamadaNaoVazia(anterior) /\ ChamadaNaoVazia(ultima)
     /\ anterior.sintomas # ultima.sintomas
     /\ MesmaOrdemTrocada(anterior.sintomas, ultima.sintomas))
    => /\ ultima.chave = anterior.chave
       /\ ultima.hit
       /\ ultima.varridas = 0
       /\ ultima.chave \in DOMAIN cache
       /\ ultima.retorno = anterior.retorno
       /\ cache[ultima.chave] = anterior.retorno

\* A missed and stored a non-empty list, B is A reordered
C7_Witness ==
    /\ ChamadaNaoVazia(anterior) /\ ChamadaNaoVazia(ultima)
    /\ anterior.sintomas # ultima.sintomas
    /\ MesmaOrdemTrocada(anterior.sintomas, ultima.sintomas)
    /\ ~anterior.hit
    /\ anterior.varridas > 0
    /\ ultima.retorno # <<>>
    /\ Cardinality(DOMAIN cache) = 1

----------------------------------------------------------------------------
(* C8 *)

\* C8: two queries made of the same distinct symptoms, whatever the number
\* of times each is repeated, get the same cache key and share one cache
\* entry: the second of two such consecutive calls is served from the cache.
C8_ChaveSoDoConjunto ==
    (/\ ChamadaNaoVazia(anterior) /\ ChamadaNaoVazia(ultima)
     /\ Elementos(anterior.sintomas) = Elementos(ultima.sintomas))
    => /\ ultima.chave = anterior.chave
       /\ ultima.hit

----------------------------------------------------------------------------
(* C9 *)

\* C9: two consecutive calls of avaliar with the same symptoms (catalog and
\* configuration unchanged, no clear_cache between them) return the same
\* list, in the same order, whether the first call was a miss or a hit.
C9_Idempotente ==
    (/\ ChamadaNaoVazia(anterior) /\ ChamadaNaoVazia(ultima)
     /\ \/ anterior.sintomas = ultima.sintomas
        \/ MesmaOrdemTrocada(anterior.sintomas, ultima.sintomas))
    => ultima.retorno = anterior.retorno

\* the same query twice, the first call a miss that cut its list
C9_Witness ==
    /\ ChamadaNaoVazia(anterior) /\ ChamadaNaoVazia(ultima)
    /\ anterior.sintomas = ultima.sintomas
    /\ ~anterior.hit
    /\ Len(anterior.mantidos) > Len(anterior.retorno)
    /\ anterior.retorno # <<>>

----------------------------------------------------------------------------
(* C10 *)

\* C10: the engine's cache never holds more than CACHE_MAX_SIZE entries.
C10_CacheLimitado ==
    Cardinality(DOMAIN cache) <= CONFIG.CACHE_MAX_SIZE

----------------------------------------------------------------------------
(* Steps of the engine, for the properties about one call *)

\* this step is an avaliar call that found its key in the cache
PassoHit ==
    /\ chamadas' = chamadas + 1
    /\ ChamadaNaoVazia(ultima')
    /\ ultima'.hit

\* this step is an avaliar call that missed the cache and stored its result
PassoMiss ==
    /\ chamadas' = chamadas + 1
    /\ ChamadaNaoVazia(ultima')
    /\ ~ultima'.hit

----------------------------------------------------------------------------
(* C11 *)

\* C11: when avaliar stores a result (put) in a cache that already holds
\* CACHE_MAX_SIZE entries or more, exactly one of the entries present is
\* evicted by the store (the claim adds: the first one of minimal hit_count).
C11_PutEvictaUmaEntrada ==
    [][(PassoMiss /\ Cardinality(DOMAIN cache) >= CONFIG.CACHE_MAX_SIZE)
          => Cardinality(DOMAIN cache \ DOMAIN cache') = 1]_vars

----------------------------------------------------------------------------
(* C12 *)

\* C12: every avaliar call served from the cache updates the entry it found
\* (its hit_count grows by exactly 1) and changes no other entry: the cache
\* after a hit differs from the cache before it, and only at the key looked up.
C12_HitContaNaEntrada ==
    [][PassoHit =>
          /\ cache'[ultima'.chave] # cache[ultima'.chave]
          /\ \A k \in DOMAIN cache \ {ultima'.chave} :
                 k \in DOMAIN cache' /\ cache'[k] = cache[k]]_vars

----------------------------------------------------------------------------
(* C13 *)

\* C13: with CACHE_MAX_SIZE = 1, once a query of key X and then a query of
\* another key Y have been evaluated, X is not in the cache, and an
\* evaluation of X made next misses and scans the whole catalog.
C13_MaximoUmEvictaX ==
    /\ [](( /\ CONFIG.CACHE_MAX_SIZE = 1
            /\ ChamadaNaoVazia(anterior)
            /\ ChamadaNaoVazia(ultima)
            /\ anterior.chave # ultima.chave )
          => anterior.chave \notin DOMAIN cache)
    /\ [][( /\ CONFIG.CACHE_MAX_SIZE = 1
            /\ ChamadaNaoVazia(anterior)
            /\ ChamadaNaoVazia(ultima)
            /\ anterior.chave # ultima.chave
            /\ chamadas' = chamadas + 1
            /\ ChamadaNaoVazia(ultima')
            /\ ultima'.chave = anterior.chave )
          => (~ultima'.hit /\ ultima'.varridas = Len(doencas))]_vars

----------------------------------------------------------------------------
(* C14 *)

\* what avaliar computes for the query q on the catalog cat
Recalculado(cat, q) == Limitar(Ordenar(Varredura(cat, q, CONFIG)), CONFIG)

\* C14: an entry stays in the cache, as it was computed against the catalog
\* of the call that stored it, until clear_cache removes it, whatever
\* db.doencas has become since; a hit returns that entry without visiting
\* any condition, so avaliar(Q) repeated after a reload returns the result of
\* Q on the old catalog.
C14_HitNaoRevalida ==
    /\ DOMAIN cache = DOMAIN origem
    /\ \A k \in DOMAIN cache :
           cache[k] = Recalculado(origem[k].doencas, origem[k].sintomas)
    /\ (ChamadaNaoVazia(ultima) /\ ultima.hit) =>
           /\ ultima.varridas = 0
           /\ ultima.retorno = cache[ultima.chave]
           /\ origem[ultima.chave].sintomas = ultima.sintomas =>
                  ultima.retorno =
                      Recalculado(origem[ultima.chave].doencas, ultima.sintomas)

\* a hit on the same query after the catalog was replaced, whose result is
\* not the one the current catalog gives
C14_Witness ==
    /\ ChamadaNaoVazia(ultima)
    /\ ultima.hit
    /\ origem[ultima.chave].sintomas = ultima.sintomas
    /\ origem[ultima.chave].doencas # doencas
    /\ ultima.retorno # Recalculado(doencas, ultima.sintomas)

----------------------------------------------------------------------------
(* C15 *)

\* C15: the lookup of avaliar (the membership test and the read of the
\* entry) is one exclusive operation on the cache: while a caller is between
\* its test and its read, no other caller has changed the map, so the key it
\* found is still there, and no call ends in the KeyError of a vanished key.
C15_ExclusaoMutua ==
    \A t \in Fios :
        /\ fios[t].pc = "ler" => fios[t].chave \in DOMAIN cache
        /\ ~fios[t].excecao

----------------------------------------------------------------------------
(* C16 *)

\* the catalog without the conditions on which the loop of avaliar fails
SemFalhas(cat, q) == SelectSeq(cat, LAMBDA d : ~DoencaLevanta(d, q))

\* C16: a call of avaliar never raises, and a call that scans the catalog
\* returns what it would return if the conditions it fails on were not in
\* the catalog.
C16_MalformadaIgnorada ==
    ChamadaNaoVazia(ultima) =>
        /\ ~ultima.excecao
        /\ ~ultima.hit =>
               ultima.retorno = Recalculado(SemFalhas(doencas, ultima.sintomas),
                                            ultima.sintomas)

----------------------------------------------------------------------------
(* C17 *)

\* C17: a call of avaliar with an empty query returns the empty list, leaves
\* the cache as it was and visits no condition.
C17_ConsultaVazia ==
    [][( /\ chamadas' = chamadas + 1
         /\ ultima'.op = "avaliar"
         /\ ultima'.sintomas = <<>> )
       => ( /\ ultima'.retorno = <<>>
            /\ ~ultima'.excecao
            /\ ultima'.varridas = 0
            /\ cache' = cache )]_vars

\* an empty query made with entries in the cache and conditions in the
\* catalog
C17_Witness ==
    /\ ultima.op = "avaliar"
    /\ ultima.sintomas = <<>>
    /\ cache # CacheVazio
    /\ doencas # <<>>

----------------------------------------------------------------------------
(* C18 *)

\* the names of the symptom entries of a condition
NomesDe(d) == {d.sintomas[i].s : i \in 1..Len(d.sintomas)}

\* C18: after the scorer has run, sintomas_correspondentes and
\* sintomas_faltantes partition the set of symptom names of the condition:
\* together they hold every name, no name is in both, none is repeated in
\* either, and a name is in sintomas_correspondentes exactly when it is in
\* the query.
C18_Particao ==
    calculado =>
        LET m == resultado.sintomas_correspondentes
            f == resultado.sintomas_faltantes
        IN  /\ Elementos(m) \cup Elementos(f) = NomesDe(doenca)
            /\ Elementos(m) \cap Elementos(f) = {}
            /\ Cardinality(Elementos(m)) = Len(m)
            /\ Cardinality(Elementos(f)) = Len(f)
            /\ \A n \in NomesDe(doenca) :
                   n \in Elementos(m) <=> n \in Elementos(sintomas)

\* a condition that lists a name twice, scored with names on both sides
C18_Witness ==
    /\ calculado
    /\ Cardinality(NomesDe(doenca)) < Len(doenca.sintomas)
    /\ resultado.sintomas_correspondentes # <<>>
    /\ resultado.sintomas_faltantes # <<>>

----------------------------------------------------------------------------
(* C19 *)

\* C19: when a condition (all weights are positive) has been scored with a
\* query and then with a query holding every symptom of the first one, the
\* second porcentagem is not lower than the first.
C19_Monotona ==
    (calculoAnterior # <<>>
        /\ Elementos(calculoAnterior[1].sintomas) \subseteq Elementos(sintomas))
    => calculoAnterior[1].resultado.porcentagem <= resultado.porcentagem

\* a query enlarged by a symptom of the condition, with a higher porcentagem
C19_Witness ==
    /\ calculoAnterior # <<>>
    /\ Elementos(calculoAnterior[1].sintomas) \subseteq Elementos(sintomas)
    /\ Elementos(calculoAnterior[1].sintomas) # Elementos(sintomas)
    /\ calculoAnterior[1].resultado.porcentagem > 0
    /\ calculoAnterior[1].resultado.porcentagem < resultado.porcentagem

----------------------------------------------------------------------------
(* C20 *)

\* C20: a condition without symptoms is scored, for every query, with
\* porcentagem 0, pontuacao_maxima 0 and empty lists of matched and missing
\* symptoms; whenever pontuacao_maxima is 0 the porcentagem is the initial 0
\* (the division is not made).
C20_SemSintomas ==
    calculado =>
        /\ doenca.sintomas = <<>> => resultado = ResultadoInicial
        /\ resultado.pontuacao_maxima = 0 => resultado.porcentagem = 0

\* a condition without symptoms scored with a query that is not empty
C20_Witness ==
    /\ calculado
    /\ doenca.sintomas = <<>>
    /\ sintomas # <<>>

----------------------------------------------------------------------------
(* C21 *)

\* C21: whatever the callers did with the lists they were given, a call of
\* avaliar served from the cache returns the result of its query on the
\* catalog (here the catalog and the configuration never change and no two
\* queries share a key).
C21_ValorSoDoCache ==
    (ChamadaNaoVazia(ultima) /\ ultima.hit) =>
        ultima.retorno = Recalculado(doencas, ultima.sintomas)

----------------------------------------------------------------------------
(* C22 *)

\* C22: every scan of avaliar runs over a collection that db.doencas has held
\* complete (the old one or the new one of a load), never over the emptied
\* or half-filled list of a load in progress.
C22_VarreduraCompleta ==
    \A k \in DOMAIN origem : origem[k].doencas \in carga.completos

----------------------------------------------------------------------------
(* C23 *)

\* one step seen from clear_cache: a clear_cache call leaves the cache empty
\* and touches nothing else of the engine or the catalog; the first
\* non-empty avaliar call after it misses, scans the whole current catalog,
\* returns the result computed from it and leaves it stored under its key
C23_Passo ==
    /\ (ultima'.op = "clear" /\ ultima.op # "clear") =>
           /\ cache' = CacheVazio
           /\ UNCHANGED <<doencas, CONFIG, chamadas, fios, calcVars, dadosVars>>
    /\ ultima.op = "clear" => cache = CacheVazio
    /\ (ultima.op = "clear" /\ chamadas' = chamadas + 1
           /\ ChamadaNaoVazia(ultima')) =>
           /\ ~ultima'.hit
           /\ ultima'.varridas = Len(doencas)
           /\ ultima'.retorno = Recalculado(doencas, ultima'.sintomas)
           /\ ultima'.chave \in DOMAIN cache'
           /\ cache'[ultima'.chave] = ultima'.retorno
           /\ DOMAIN cache' = {ultima'.chave}

\* C23: after clear_cache the cache holds no entry, the next non-empty
\* avaliar call is a miss that recomputes from the current catalog and stores
\* the result, and clear_cache changes nothing but the cache.
C23_DepoisDeLimpar == [][C23_Passo]_vars

\* a query was answered by a fresh non-empty computation right after a
\* clear_cache, and the result is in the cache again
C23_Witness ==
    /\ anterior.op = "clear"
    /\ ChamadaNaoVazia(ultima)
    /\ ~ultima.hit
    /\ ultima.retorno # <<>>
    /\ DOMAIN cache = {ultima.chave}
    /\ chamadas >= 2

----------------------------------------------------------------------------
(* C25 *)

\* C25: with the catalog and the configuration unchanged, every non-empty
\* avaliar call returns what the computation of its own query on the catalog
\* returns, whatever calls came before: no call is served the entry that a
\* query with another symptom set stored.
C25_SemPartilha ==
    ChamadaNaoVazia(ultima) =>
        /\ ultima.retorno = Recalculado(doencas, ultima.sintomas)
        /\ (ultima.chave \in DOMAIN origem =>
               Elementos(origem[ultima.chave].sintomas)
                   = Elementos(ultima.sintomas))

----------------------------------------------------------------------------
(* C26 *)

\* one avaliar call seen from the configuration: every record returned has
\* a percentage of at least the PORCENTAGEM_MINIMA of the moment of the call
\* and the list is no longer than the LIMITE_RESULTADOS of that moment
C26_Passo ==
    (chamadas' = chamadas + 1 /\ ChamadaNaoVazia(ultima')) =>
        /\ Len(ultima'.retorno) <= CONFIG.LIMITE_RESULTADOS
        /\ \A i \in 1..Len(ultima'.retorno) :
               ultima'.retorno[i].porcentagem >= CONFIG.PORCENTAGEM_MINIMA

\* C26: every list returned by avaliar respects the minimum percentage and
\* the cap of the configuration in force at that call, also when it is
\* served from the cache after the configuration changed.
C26_ConfigDaChamada == [][C26_Passo]_vars

----------------------------------------------------------------------------
(* C24 *)

\* C24: get_cache_stats reports the number of entries of the cache, the sum
\* of their hits, and as average exactly total_hits / count (here in
\* hundredths), or 0 for an empty cache.
C24_Estatisticas ==
    pedido.op = "stats" =>
        /\ pedido.stats.total_entradas = Len(pedido.antes)
        /\ pedido.stats.total_hits = SomaHits(pedido.antes)
        /\ IF Len(pedido.antes) = 0
           THEN pedido.stats.avg_hits = 0
           ELSE pedido.stats.avg_hits * Len(pedido.antes)
                    = 100 * pedido.stats.total_hits

----------------------------------------------------------------------------
(* C27 *)

\* the keys of a cache of the DataManager
ChavesDe(c) == {c[i].key : i \in 1..Len(c)}

\* one _save_to_cache call seen from a full cache that holds the key: the
\* keys are the same afterwards and every entry of another key is as it was
C27_Passo ==
    (/\ operacoes' = operacoes + 1
     /\ pedido'.op = "save"
     /\ Len(gerenciador.cache) = gerenciador.cache_max_size
     /\ pedido'.key \in ChavesDe(gerenciador.cache)) =>
        /\ ChavesDe(gerenciador'.cache) = ChavesDe(gerenciador.cache)
        /\ Len(gerenciador'.cache) = Len(gerenciador.cache)
        /\ \A i \in 1..Len(gerenciador.cache) :
               gerenciador.cache[i].key # pedido'.key =>
                   \E j \in 1..Len(gerenciador'.cache) :
                       gerenciador'.cache[j] = gerenciador.cache[i]

\* C27: storing under a key already present in a full cache only replaces
\* the entry of that key: no other entry is evicted and the number of
\* entries stays the same.
C27_SubstituiSoAChave == [][C27_Passo]_vars

----------------------------------------------------------------------------
(* C28 *)

\* the objects that the calls of Database() have returned so far
Obtidas == UNION {construtores[t].obtidas : t \in Fios}

\* number of runs of _carregar_dados over all the objects
RECURSIVE Carregamentos(_)
Carregamentos(os) ==
    IF os = <<>> THEN 0 ELSE os[1].carregamentos + Carregamentos(Tail(os))

\* C28: whatever the interleaving of the threads calling Database(), all
\* the calls return the same object and the data files are read once.
C28_Singleton ==
    /\ Cardinality(Obtidas) <= 1
    /\ Carregamentos(objetos) <= 1
    /\ Obtidas # {} => Carregamentos(objetos) = 1

----------------------------------------------------------------------------
(* C29 *)

\* C29: no two active patients of the collection have the same non-empty
\* CPF.
C29_CpfUnico ==
    \A i, j \in DOMAIN pacientes :
        (/\ i # j
         /\ pacientes[i].ativo /\ pacientes[j].ativo
         /\ pacientes[i].cpf # "") => pacientes[i].cpf # pacientes[j].cpf

----------------------------------------------------------------------------
(* C30 *)

\* C30: after an adicionar_paciente call that failed (it raised for a CPF
\* already registered, or it returned False because the save failed) the
\* collection is the one of before the call.
C30_FalhaNaoAltera ==
    (cadastro.op = "adicionar" /\ cadastro.resultado \in {"ValueError", "False"})
        => pacientes = cadastro.antes

====
